---- MODULE Spec2Model ----
(***************************************************************************)
(* Model of cmd/main.go: the BP35A1 Wi-SUN driver.  main() runs the B-route *)
(* join sequence on one goroutine, then starts one goroutine per ticker     *)
(* tick; each goroutine performs one measurement exchange under the mutex   *)
(* bp.used.  ReadLine is modelled twice: byte by byte (SpecReadLine), and   *)
(* by its outcome (a line, ErrReadTimeout or a transport error) in Spec.    *)
(* The decoding of the ERXUDP line is modelled twice as well: character by  *)
(* character (SpecDecode), and by its outcome in Spec.  SpecMethods and     *)
(* SpecFair run the polling loop from the state a successful join leaves:   *)
(* with goroutines calling all four measurement methods, and with fair      *)
(* scheduling.                                                              *)
(***************************************************************************)
EXTENDS Integers, Sequences, FiniteSets, TLC

VARIABLES
    pc,           \* main(): the statement main is at (the join step, "poll", "exited", "crashed")
    at,           \* position inside the join method main is executing (0 = not entered)
    err,          \* main's variable err: the result of the last join method
    res,          \* the local res of SetNetWrokInfo / ConBRoute: the class of the last line read in their loops
    scanDuration, \* SetNetWrokInfo's local scanDuration
    netWrokInfo,  \* SetNetWrokInfo's local netWrokInfo (the candidate)
    got,          \* history: the keys whose (non-empty) candidate value arrived in the current scan attempt
    NetWrokInfo,  \* bp.NetWrokInfo
    IPv6Addr,     \* bp.IPv6Addr
    RouteB,       \* bp.RouteB_ID and bp.RouteB_PW
    lastLine,     \* event21 or erxudp of the measurement method that read last
    written,      \* the last command written to the port
    joinState,    \* history: the join state of the specification reached so far
    used,         \* bp.used: 0 when unlocked, else the goroutine holding it
    task,         \* the goroutines started by the tickers
    payload,      \* ReadLine, byte level: the payload P the channel was given
    input,        \* ReadLine, byte level: the bytes the channel delivers
    rpos,         \* ReadLine, byte level: the number of bytes consumed
    buf,          \* ReadLine's one-byte buffer buf[0]
    data,         \* ReadLine's accumulator
    stalls,       \* history: the number of reads that returned no byte
    rl,           \* ReadLine's outcome: [pc, ret, err]
    dec           \* the decoding of one ERXUDP line on its own: [pc, method, bits, erxudp, ret]

vars == <<pc, at, err, res, scanDuration, netWrokInfo, got, NetWrokInfo, IPv6Addr, RouteB,
          lastLine, written, joinState, used, task, payload, input, rpos, buf, data, stalls, rl, dec>>

mainVars == <<pc, at, err, res, scanDuration, netWrokInfo, got, NetWrokInfo, IPv6Addr, RouteB,
              lastLine, written, joinState, used, task>>

rlVars == <<payload, input, rpos, buf, data, stalls, rl>>

----------------------------------------------------------------------------
(* Bounds *)

MaxTasks == 2     \* goroutines started by the tickers in one run
MaxLen == 3       \* length of the payload given to the byte-level ReadLine
MaxStalls == 1    \* reads of the byte-level ReadLine that return no byte

(* Program constants *)

ScanDurationStart == 5
ScanDurationMax == 7
NUL == 0
CR == 13
LF == 10

----------------------------------------------------------------------------
(* Errors *)

Nil == "nil"
ErrUnexpectedString == "unexpected string"
ErrParse == "parse error"
ErrReadTimeout == "read timeout"
ErrIO == "io error"                       \* any error bp.Read returns
ErrScanRetry == "scan retry over error"
ErrPANA == "PANA authentication failed"

\* what ReadLine can return besides a line
ReadErrors == {ErrReadTimeout, ErrIO}

----------------------------------------------------------------------------
(* NetWrokInfo *)

Keys == {"Channel", "Channel Page", "Pan ID", "Addr", "LQI", "PairID"}

EmptyInfo == [k \in Keys |-> ""]

isValid(n) == \A k \in Keys : n[k] # ""

----------------------------------------------------------------------------
(* Lines, as the join methods classify them *)

\* res holds what the loops test of a line: its prefix class
NoLine == "none"

Event(e) == [kind |-> e, key |-> "-", val |-> ""]

\* what the module can send while a scan runs
ScanLines ==
    {Event("EVENT 22"), Event("EVENT 20")}
    \cup [kind : {"kv"}, key : Keys \cup {"Side"}, val : {"", "v"}]
    \cup [kind : {"nocolon"}, key : Keys \cup {"Side"}, val : {""}]

\* what the module can send after SKJOIN
JoinLines == {Event("EVENT 24"), Event("EVENT 25"), Event("EVENT 21"), Event("ERXUDP")}

\* what the module can answer to SKLL64
AddrLines == {"", "FE80:0000:0000:0000:021D:1290:1234:5678"}

Cmd(c, a) == [cmd |-> c, arg |-> a]

\* the -i and -P flags, which main requires to be non-empty
Credentials == [ID |-> "id", PW |-> "pw"]

\* no line is being decoded on its own
DecOff == [pc |-> "off"]

----------------------------------------------------------------------------
(* main(): the order of the join methods *)

NextPc(p) ==
    CASE p = "RouteBLogin" -> "SetNetWrokInfo"
      [] p = "SetNetWrokInfo" -> "RegistChannel"
      [] p = "RegistChannel" -> "RegistPanID"
      [] p = "RegistPanID" -> "SetIPv6Addr"
      [] p = "SetIPv6Addr" -> "ConBRoute"
      [] p = "ConBRoute" -> "SetReadTimeout"

\* the join state of the specification a method's success leads to
StateAfter(p) ==
    CASE p = "RouteBLogin" -> "LoggedIn"
      [] p = "SetNetWrokInfo" -> "Scanned"
      [] p = "RegistChannel" -> "ChannelRegistered"
      [] p = "RegistPanID" -> "PanRegistered"
      [] p = "SetIPv6Addr" -> "AddressResolved"
      [] p = "ConBRoute" -> "Joined"

StateBefore(p) ==
    CASE p = "RouteBLogin" -> "Init"
      [] p = "SetNetWrokInfo" -> "LoggedIn"
      [] p = "RegistChannel" -> "Scanned"
      [] p = "RegistPanID" -> "ChannelRegistered"
      [] p = "SetIPv6Addr" -> "PanRegistered"
      [] p = "ConBRoute" -> "AddressResolved"

\* main after a join method returned e: err is printed when not nil, and main goes on
MainAfter(p, e) == NextPc(p)

\* a join method returns e to main
Return(e) ==
    /\ pc' = MainAfter(pc, e)
    /\ at' = 0
    /\ err' = e
    /\ joinState' = IF e = Nil /\ joinState = StateBefore(pc) THEN StateAfter(pc) ELSE "Failed"

----------------------------------------------------------------------------
Init ==
    /\ pc = "RouteBLogin"
    /\ at = 0
    /\ err = Nil
    /\ res = NoLine
    /\ scanDuration = 0
    /\ netWrokInfo = EmptyInfo
    /\ got = {}
    /\ NetWrokInfo = EmptyInfo
    /\ IPv6Addr = ""
    /\ RouteB = Credentials
    /\ lastLine = NoLine
    /\ written = Cmd("none", 0)
    /\ joinState = "Init"
    /\ used = 0
    /\ task = [t \in 1..MaxTasks |-> [kind |-> "none", pc |-> "idle", err |-> Nil]]
    /\ payload = <<>>
    /\ input = <<>>
    /\ rpos = 0
    /\ buf = NUL
    /\ data = <<>>
    /\ stalls = 0
    /\ rl = [pc |-> "off", ret |-> <<>>, err |-> Nil]
    /\ dec = DecOff

----------------------------------------------------------------------------
(* The locals of a join method are dead once main executes its next statement *)

DropLocals ==
    /\ res' = NoLine
    /\ scanDuration' = 0
    /\ netWrokInfo' = EmptyInfo
    /\ got' = {}

KeepLocals == UNCHANGED <<res, scanDuration, netWrokInfo, got>>

KeepSession == UNCHANGED <<NetWrokInfo, IPv6Addr, RouteB>>

KeepPolling == UNCHANGED <<used, task, lastLine>>

\* bp.Write(command) by main
MainWrite(c) == written' = c

\* a ReadLine whose line the method only prints: the line, or the error returned
EchoOutcomes == {"line"} \cup ReadErrors

----------------------------------------------------------------------------
(* RouteBLogin *)

RouteBLogin_WriteID ==
    /\ pc = "RouteBLogin" /\ at = 0
    /\ MainWrite(Cmd("SKSETRBID", 0))
    /\ at' = 1
    /\ UNCHANGED <<pc, err, joinState>>
    /\ KeepLocals /\ KeepSession /\ KeepPolling /\ UNCHANGED <<rlVars, dec>>

RouteBLogin_WritePW ==
    /\ pc = "RouteBLogin" /\ at = 3
    /\ MainWrite(Cmd("SKSETPWD", 0))
    /\ at' = 4
    /\ UNCHANGED <<pc, err, joinState>>
    /\ KeepLocals /\ KeepSession /\ KeepPolling /\ UNCHANGED <<rlVars, dec>>

RouteBLogin_Read ==
    /\ pc = "RouteBLogin" /\ at \in {1, 2, 4, 5}
    /\ \E o \in EchoOutcomes :
         IF o # "line" THEN Return(o)
         ELSE IF at = 5 THEN Return(Nil)
         ELSE at' = at + 1 /\ UNCHANGED <<pc, err, joinState>>
    /\ UNCHANGED written
    /\ KeepLocals /\ KeepSession /\ KeepPolling /\ UNCHANGED <<rlVars, dec>>

----------------------------------------------------------------------------
(* SetNetWrokInfo *)

ScanRetryOver_OneMore(d) == d > ScanDurationMax + 1

\* the loop's guard on scanDuration
ScanRetryOver(d) == d > ScanDurationMax

\* one key/value line: the switch on cols[0]
StoreField(n, line) ==
    IF line.key \in Keys THEN [n EXCEPT ![line.key] = line.val] ELSE n

\* the candidate the check after the inner loop looks at
Candidate == netWrokInfo

Assigned_Always(valid) == netWrokInfo

\* bp.NetWrokInfo after the check of the candidate: assigned only when it is valid
Assigned(valid) == IF valid THEN netWrokInfo ELSE NetWrokInfo

SetNetWrokInfo_Scan ==
    /\ pc = "SetNetWrokInfo" /\ at = 0
    /\ ~ScanRetryOver(ScanDurationStart)
    /\ MainWrite(Cmd("SKSCAN", ScanDurationStart))
    /\ scanDuration' = ScanDurationStart
    /\ netWrokInfo' = EmptyInfo
    /\ got' = {}
    /\ res' = NoLine
    /\ at' = 1
    /\ UNCHANGED <<pc, err, joinState>>
    /\ KeepSession /\ KeepPolling /\ UNCHANGED <<rlVars, dec>>

\* ReadLine returned an error inside the inner loop
SetNetWrokInfo_ReadError ==
    /\ pc = "SetNetWrokInfo" /\ at = 1
    /\ \E e \in ReadErrors : Return(e)
    /\ res' = NoLine
    /\ UNCHANGED <<written, scanDuration, netWrokInfo, got>>
    /\ KeepSession /\ KeepPolling /\ UNCHANGED <<rlVars, dec>>

\* a line that is neither the end of the scan nor a stored field
SetNetWrokInfo_ReadOther ==
    /\ pc = "SetNetWrokInfo" /\ at = 1
    /\ \E line \in ScanLines :
         /\ line.kind # "EVENT 22"
         /\ line.kind = "kv" => line.key \notin Keys
         /\ line.kind = "nocolon" => line.key \notin Keys
         /\ res' = line.kind
    /\ UNCHANGED <<pc, at, err, joinState, written, scanDuration, netWrokInfo, got>>
    /\ KeepSession /\ KeepPolling /\ UNCHANGED <<rlVars, dec>>

\* an indented "key:value" line
SetNetWrokInfo_ReadField ==
    /\ pc = "SetNetWrokInfo" /\ at = 1
    /\ \E line \in ScanLines :
         /\ line.kind = "kv" /\ line.key \in Keys
         /\ res' = line.kind
         /\ netWrokInfo' = StoreField(netWrokInfo, line)
         /\ got' = IF line.val # "" THEN got \cup {line.key} ELSE got \ {line.key}
    /\ UNCHANGED <<pc, at, err, joinState, written, scanDuration>>
    /\ KeepSession /\ KeepPolling /\ UNCHANGED <<rlVars, dec>>

\* an indented line naming a key without ":": cols[1] is out of range, the process panics
SetNetWrokInfo_ReadNoColon ==
    /\ pc = "SetNetWrokInfo" /\ at = 1
    /\ \E line \in ScanLines :
         /\ line.kind = "nocolon" /\ line.key \in Keys
         /\ res' = line.kind
    /\ pc' = "crashed"
    /\ UNCHANGED <<at, err, joinState, written, scanDuration, netWrokInfo, got>>
    /\ KeepSession /\ KeepPolling /\ UNCHANGED <<rlVars, dec>>

\* "EVENT 22": the inner loop ends; success, the next scan, or the retry error
SetNetWrokInfo_ScanEnd ==
    /\ pc = "SetNetWrokInfo" /\ at = 1
    /\ res' = "EVENT 22"
    /\ NetWrokInfo' = Assigned(isValid(Candidate))
    /\ IF isValid(Candidate)
       THEN /\ Return(Nil)
            /\ UNCHANGED <<written, scanDuration, got>>
       ELSE IF ScanRetryOver(scanDuration + 1)
       THEN /\ Return(ErrScanRetry)
            /\ UNCHANGED <<written, scanDuration, got>>
       ELSE /\ scanDuration' = scanDuration + 1
            /\ MainWrite(Cmd("SKSCAN", scanDuration + 1))
            /\ got' = {}
            /\ UNCHANGED <<pc, at, err, joinState>>
    /\ UNCHANGED <<netWrokInfo, IPv6Addr, RouteB>>
    /\ KeepPolling /\ UNCHANGED <<rlVars, dec>>

----------------------------------------------------------------------------
(* RegistChannel, RegistPanID *)

RegistChannel_Write ==
    /\ pc = "RegistChannel" /\ at = 0
    /\ MainWrite(Cmd("SKSREG S2", 0))
    /\ at' = 1
    /\ DropLocals
    /\ UNCHANGED <<pc, err, joinState>>
    /\ KeepSession /\ KeepPolling /\ UNCHANGED <<rlVars, dec>>

RegistPanID_Write ==
    /\ pc = "RegistPanID" /\ at = 0
    /\ MainWrite(Cmd("SKSREG S3", 0))
    /\ at' = 1
    /\ UNCHANGED <<pc, err, joinState>>
    /\ KeepLocals /\ KeepSession /\ KeepPolling /\ UNCHANGED <<rlVars, dec>>

\* echoBack and ok, of either method
Regist_Read ==
    /\ pc \in {"RegistChannel", "RegistPanID"} /\ at \in {1, 2}
    /\ \E o \in EchoOutcomes :
         IF o # "line" THEN Return(o)
         ELSE IF at = 2 THEN Return(Nil)
         ELSE at' = at + 1 /\ UNCHANGED <<pc, err, joinState>>
    /\ UNCHANGED written
    /\ KeepLocals /\ KeepSession /\ KeepPolling /\ UNCHANGED <<rlVars, dec>>

----------------------------------------------------------------------------
(* SetIPv6Addr *)

SetIPv6Addr_Write ==
    /\ pc = "SetIPv6Addr" /\ at = 0
    /\ MainWrite(Cmd("SKLL64", 0))
    /\ at' = 1
    /\ UNCHANGED <<pc, err, joinState>>
    /\ KeepLocals /\ KeepSession /\ KeepPolling /\ UNCHANGED <<rlVars, dec>>

SetIPv6Addr_ReadEcho ==
    /\ pc = "SetIPv6Addr" /\ at = 1
    /\ \E o \in EchoOutcomes :
         IF o # "line" THEN Return(o)
         ELSE at' = 2 /\ UNCHANGED <<pc, err, joinState>>
    /\ UNCHANGED written
    /\ KeepLocals /\ KeepSession /\ KeepPolling /\ UNCHANGED <<rlVars, dec>>

SetIPv6Addr_ReadAddr ==
    /\ pc = "SetIPv6Addr" /\ at = 2
    /\ \/ \E e \in ReadErrors : Return(e) /\ UNCHANGED IPv6Addr
       \/ \E line \in AddrLines : IPv6Addr' = line /\ Return(Nil)
    /\ UNCHANGED <<written, NetWrokInfo, RouteB>>
    /\ KeepLocals /\ KeepPolling /\ UNCHANGED <<rlVars, dec>>

----------------------------------------------------------------------------
(* ConBRoute *)

JoinEvent_NoFailure(line) ==
    IF line.kind = "EVENT 25" THEN "connected" ELSE "skip"

\* what the loop does with a line: "fail", "connected" or "skip"
JoinEvent(line) ==
    IF line.kind = "EVENT 24" THEN "fail"
    ELSE IF line.kind = "EVENT 25" THEN "connected"
    ELSE "skip"

ConBRoute_Write ==
    /\ pc = "ConBRoute" /\ at = 0
    /\ MainWrite(Cmd("SKJOIN", 0))
    /\ at' = 1
    /\ UNCHANGED <<pc, err, joinState>>
    /\ KeepLocals /\ KeepSession /\ KeepPolling /\ UNCHANGED <<rlVars, dec>>

\* echoBack and ok
ConBRoute_ReadEcho ==
    /\ pc = "ConBRoute" /\ at \in {1, 2}
    /\ \E o \in EchoOutcomes :
         IF o # "line" THEN Return(o)
         ELSE at' = at + 1 /\ UNCHANGED <<pc, err, joinState>>
    /\ UNCHANGED written
    /\ KeepLocals /\ KeepSession /\ KeepPolling /\ UNCHANGED <<rlVars, dec>>

\* one iteration of the loop "for !connected"
ConBRoute_ReadEvent ==
    /\ pc = "ConBRoute" /\ at = 3
    /\ \/ \E e \in ReadErrors : Return(e) /\ res' = NoLine
       \/ \E line \in JoinLines :
            /\ res' = line.kind
            /\ CASE JoinEvent(line) = "fail" -> Return(ErrPANA)
                 [] JoinEvent(line) = "connected" ->
                      at' = 4 /\ UNCHANGED <<pc, err, joinState>>
                 [] OTHER -> UNCHANGED <<pc, at, err, joinState>>
    /\ UNCHANGED <<written, scanDuration, netWrokInfo, got>>
    /\ KeepSession /\ KeepPolling /\ UNCHANGED <<rlVars, dec>>

\* instanceList
ConBRoute_ReadInstanceList ==
    /\ pc = "ConBRoute" /\ at = 4
    /\ \E o \in EchoOutcomes : IF o # "line" THEN Return(o) ELSE Return(Nil)
    /\ UNCHANGED written
    /\ KeepLocals /\ KeepSession /\ KeepPolling /\ UNCHANGED <<rlVars, dec>>

----------------------------------------------------------------------------
(* main, between the join sequence and the polling loop *)

\* SetReadTimeout and the two NewTicker calls; err is not read again
StartPolling ==
    /\ pc = "SetReadTimeout"
    /\ pc' = "poll"
    /\ err' = Nil
    /\ DropLocals
    /\ UNCHANGED <<at, written, joinState>>
    /\ KeepSession /\ KeepPolling /\ UNCHANGED <<rlVars, dec>>

JoinNext ==
    \/ RouteBLogin_WriteID \/ RouteBLogin_WritePW \/ RouteBLogin_Read
    \/ SetNetWrokInfo_Scan \/ SetNetWrokInfo_ReadError \/ SetNetWrokInfo_ReadOther
    \/ SetNetWrokInfo_ReadField \/ SetNetWrokInfo_ReadNoColon \/ SetNetWrokInfo_ScanEnd
    \/ RegistChannel_Write \/ RegistPanID_Write \/ Regist_Read
    \/ SetIPv6Addr_Write \/ SetIPv6Addr_ReadEcho \/ SetIPv6Addr_ReadAddr
    \/ ConBRoute_Write \/ ConBRoute_ReadEcho \/ ConBRoute_ReadEvent
    \/ ConBRoute_ReadInstanceList
    \/ StartPolling

----------------------------------------------------------------------------
(* The polling loop of main and the goroutines it starts *)

Tasks == 1..MaxTasks

Kinds == {"fast", "slow"}   \* GetMeasuredInstantaneous, GetUnitAndRegularTimeNormalDirectionCumulativeElectricEnergy

ErrStrconv == "strconv syntax error"
ErrTime == "time parse error"
Panic == "panic"                          \* index or slice bounds out of range

\* the line read in the ERXUDP position, as the measurement methods look at it
ErxLines ==
    [marker : BOOLEAN,      \* begins with "ERXUDP"
     long : BOOLEAN,        \* has 9 fields and a payload as long as the offsets read
     seoj : BOOLEAN,        \* payload[8:14] = "028801"
     esv : BOOLEAN,         \* payload[20:22] = "72"
     epc1 : BOOLEAN,        \* payload[24:26] is the (first) property code asked for
     epc2 : BOOLEAN,        \* payload[30:32] = "EA"
     edt : BOOLEAN]         \* the property data decode

\* how the line read in the ERXUDP position begins
Marker(line) == IF line.marker THEN "ERXUDP" ELSE "other"

\* the line read in the position before OK
Event21Lines == {"EVENT 21", "EVENT 21 FE80:0000:0000:0000:021D:1290:1234:5678 02", "other"}

Running == pc = "poll"

InExchange == {"echo", "event21", "ok", "erxudp"}

\* the goroutines between their command write and their return
Exchanging == {t \in Tasks : task[t].pc \in InExchange}

Idle == {t \in Tasks : task[t].pc = "idle"}

KeepMain == UNCHANGED <<pc, at, err, res, scanDuration, netWrokInfo, got, joinState>>

\* a case of the select: a ticker fired and main starts a goroutine
Tick(k) ==
    /\ Running
    /\ Idle # {}
    /\ LET t == CHOOSE i \in Idle : \A j \in Idle : i <= j
       IN task' = [task EXCEPT ![t] = [kind |-> k, pc |-> "Lock", err |-> Nil]]
    /\ UNCHANGED <<used, written>>
    /\ UNCHANGED lastLine
    /\ KeepMain /\ KeepSession /\ UNCHANGED <<rlVars, dec>>

CanLock_NoMutex(t) == TRUE

CanLock_FirstOnly(t) == used = 0 /\ t = 1

\* sync.Mutex: Lock returns only when the mutex is unlocked
CanLock(t) == used = 0

\* bp.used.Lock()
Lock(t) ==
    /\ Running
    /\ task[t].pc = "Lock"
    /\ CanLock(t)
    /\ used' = t
    /\ task' = [task EXCEPT ![t].pc = "Write"]
    /\ UNCHANGED written
    /\ UNCHANGED lastLine
    /\ KeepMain /\ KeepSession /\ UNCHANGED <<rlVars, dec>>

\* bp.Write(command): the SKSENDTO command
Write(t) ==
    /\ Running
    /\ task[t].pc = "Write"
    /\ written' = Cmd("SKSENDTO", t)
    /\ task' = [task EXCEPT ![t].pc = "echo"]
    /\ UNCHANGED used
    /\ UNCHANGED lastLine
    /\ KeepMain /\ KeepSession /\ UNCHANGED <<rlVars, dec>>

TaskReturn_UnlockOnSuccess(t, e) ==
    /\ task' = [task EXCEPT ![t].pc = "ret", ![t].err = e]
    /\ used' = IF used = t /\ e = Nil THEN 0 ELSE used

\* the method returns e; the deferred bp.used.Unlock() runs
TaskReturn(t, e) ==
    /\ task' = [task EXCEPT ![t].pc = "ret", ![t].err = e]
    /\ used' = IF used = t THEN 0 ELSE used

TaskGoto(t, p) ==
    /\ task' = [task EXCEPT ![t].pc = p]
    /\ UNCHANGED used

\* line (the echo) and ok
ReadEchoOk(t) ==
    /\ Running
    /\ task[t].pc \in {"echo", "ok"}
    /\ \E o \in EchoOutcomes :
         IF o # "line" THEN TaskReturn(t, o)
         ELSE TaskGoto(t, IF task[t].pc = "echo" THEN "event21" ELSE "erxudp")
    /\ UNCHANGED written
    /\ UNCHANGED lastLine
    /\ KeepMain /\ KeepSession /\ UNCHANGED <<rlVars, dec>>

\* event21
ReadEvent21(t) ==
    /\ Running
    /\ task[t].pc = "event21"
    /\ \/ \E e \in ReadErrors : TaskReturn(t, e) /\ lastLine' = NoLine
       \/ \E line \in Event21Lines :
            /\ lastLine' = line
            /\ IF line = "EVENT 21" THEN TaskReturn(t, ErrUnexpectedString)
               ELSE TaskGoto(t, "ok")
    /\ UNCHANGED written
    /\ KeepMain /\ KeepSession /\ UNCHANGED <<rlVars, dec>>

\* what the method returns for the line read in the ERXUDP position
Decode(k, line) ==
    IF ~line.marker THEN {ErrUnexpectedString}
    ELSE IF ~line.long THEN {Panic}
    ELSE IF ~line.seoj \/ ~line.esv \/ ~line.epc1 \/ (k = "slow" /\ ~line.epc2) THEN {ErrParse}
    ELSE IF line.edt THEN {Nil}
    ELSE CASE k = "fast" -> {ErrParse}
           [] k = "unit" -> {ErrParse, ErrStrconv}
           [] k = "energy" -> {ErrParse, ErrTime}
           [] k = "slow" -> {ErrParse, ErrStrconv, ErrTime}

\* erxudp, and the decoding that follows it
ReadErxudp(t) ==
    /\ Running
    /\ task[t].pc = "erxudp"
    /\ \/ \E e \in ReadErrors : TaskReturn(t, e) /\ lastLine' = NoLine
       \/ \E line \in ErxLines :
            /\ lastLine' = Marker(line)
            /\ \E e \in Decode(task[t].kind, line) : TaskReturn(t, e)
    /\ UNCHANGED written
    /\ KeepMain /\ KeepSession /\ UNCHANGED <<rlVars, dec>>

Fatal_ParseIgnored(e) == e # Nil /\ e # ErrParse

\* the goroutine's test "if err != nil"
Fatal(e) == e # Nil

\* the goroutine after the method returned: os.Exit(1), or the result is printed
Handle(t) ==
    /\ Running
    /\ task[t].pc = "ret"
    /\ IF task[t].err = Panic
       THEN pc' = "crashed" /\ UNCHANGED task
       ELSE IF Fatal(task[t].err)
       THEN pc' = "exited" /\ task' = [task EXCEPT ![t].pc = "exit"]
       ELSE pc' = pc /\ task' = [task EXCEPT ![t].pc = "done"]
    /\ UNCHANGED <<at, err, res, scanDuration, netWrokInfo, got, joinState, used, written>>
    /\ UNCHANGED lastLine
    /\ KeepSession /\ UNCHANGED <<rlVars, dec>>

PollNext ==
    \/ \E k \in Kinds : Tick(k)
    \/ \E t \in Tasks :
         \/ Lock(t) \/ Write(t) \/ ReadEchoOk(t) \/ ReadEvent21(t) \/ ReadErxudp(t)
         \/ Handle(t)

Next == JoinNext \/ PollNext

Spec == Init /\ [][Next]_vars

----------------------------------------------------------------------------
(* The polling loop on its own, from the state in which a successful join  *)
(* sequence leaves the program                                              *)

InitPolling ==
    /\ pc = "poll"
    /\ at = 0
    /\ err = Nil
    /\ res = NoLine
    /\ scanDuration = 0
    /\ netWrokInfo = EmptyInfo
    /\ got = {}
    /\ NetWrokInfo = [k \in Keys |-> "v"]
    /\ IPv6Addr \in AddrLines
    /\ RouteB = Credentials
    /\ lastLine = NoLine
    /\ written = Cmd("SKJOIN", 0)
    /\ joinState = "Joined"
    /\ used = 0
    /\ task = [t \in 1..MaxTasks |-> [kind |-> "none", pc |-> "idle", err |-> Nil]]
    /\ payload = <<>>
    /\ input = <<>>
    /\ rpos = 0
    /\ buf = NUL
    /\ data = <<>>
    /\ stalls = 0
    /\ rl = [pc |-> "off", ret |-> <<>>, err |-> Nil]
    /\ dec = DecOff

\* GetCumulativeElectricEnergyUnit and GetRegularTimeNormalDirectionCumulativeElectricEnergy,
\* the measurement methods that main does not call
UncalledKinds == {"unit", "energy"}

\* goroutines that call any of the four measurement methods
NextMethods == PollNext \/ \E k \in UncalledKinds : Tick(k)

SpecMethods == InitPolling /\ [][NextMethods]_vars

\* Every goroutine that can take a step takes it, the reads return, and the
\* mutex is granted to every goroutine that waits for it (sync.Mutex hands the
\* lock to a waiter that failed to get it for long).
Fairness ==
    \A t \in Tasks :
        /\ SF_vars(Lock(t))
        /\ WF_vars(Write(t))
        /\ WF_vars(ReadEchoOk(t))
        /\ WF_vars(ReadEvent21(t))
        /\ WF_vars(ReadErxudp(t))
        /\ WF_vars(Handle(t))

SpecFair == InitPolling /\ [][PollNext]_vars /\ Fairness

----------------------------------------------------------------------------
(* ReadLine, byte by byte *)

\* the bytes the payloads are made of: 0x00, CR, LF and the letter A
Bytes == {NUL, CR, LF, 65}

SeqsUpTo(S, n) == UNION {[1..m -> S] : m \in 0..n}

CRLF == <<CR, LF>>

EndsCRLF_OnlyLF(d) == Len(d) >= 2 /\ d[Len(d)] = LF

\* the test that ends the loop
EndsCRLF(d) == Len(d) >= 2 /\ d[Len(d) - 1] = CR /\ d[Len(d)] = LF

\* the return after the loop
Strip(d) == SubSeq(d, 1, Len(d) - 2)

Accumulate_NoSentinel(d, b) ==
    LET d1 == Append(d, b)
    IN IF EndsCRLF(d1) THEN [pc |-> "done", ret |-> Strip(d1), err |-> Nil, data |-> d1]
       ELSE [pc |-> "read", ret |-> <<>>, err |-> Nil, data |-> d1]

\* the body of the loop after bp.Read returned without error, buf[0] being b
Accumulate(d, b) ==
    LET d1 == Append(d, b)
    IN IF b = NUL THEN [pc |-> "done", ret |-> <<>>, err |-> ErrReadTimeout, data |-> d1]
       ELSE IF EndsCRLF(d1) THEN [pc |-> "done", ret |-> Strip(d1), err |-> Nil, data |-> d1]
       ELSE [pc |-> "read", ret |-> <<>>, err |-> Nil, data |-> d1]

InitReadLine ==
    /\ pc = "RouteBLogin"
    /\ at = 0
    /\ err = Nil
    /\ res = NoLine
    /\ scanDuration = 0
    /\ netWrokInfo = EmptyInfo
    /\ got = {}
    /\ NetWrokInfo = EmptyInfo
    /\ IPv6Addr = ""
    /\ RouteB = Credentials
    /\ lastLine = NoLine
    /\ written = Cmd("none", 0)
    /\ joinState = "Init"
    /\ used = 0
    /\ task = [t \in 1..MaxTasks |-> [kind |-> "none", pc |-> "idle", err |-> Nil]]
    /\ payload \in SeqsUpTo(Bytes, MaxLen)
    /\ \E tail \in {<<>>, <<65>>} : input = payload \o CRLF \o tail
    /\ rpos = 0
    /\ buf = NUL
    /\ data = <<>>
    /\ stalls = 0
    /\ rl = [pc |-> "read", ret |-> <<>>, err |-> Nil]
    /\ dec = DecOff

\* bp.Read stores the next byte of the channel in buf
ReadLine_ReadByte ==
    /\ rl.pc = "read"
    /\ rpos < Len(input)
    /\ LET b == input[rpos + 1]
           r == Accumulate(data, b)
       IN /\ buf' = b
          /\ data' = r.data
          /\ rl' = [pc |-> r.pc, ret |-> r.ret, err |-> r.err]
    /\ rpos' = rpos + 1
    /\ UNCHANGED <<payload, input, stalls>>
    /\ UNCHANGED <<mainVars, dec>>

\* bp.Read returns no byte and no error (the port's read timeout): buf keeps its value
ReadLine_ReadNothing ==
    /\ rl.pc = "read"
    /\ stalls < MaxStalls
    /\ LET r == Accumulate(data, buf)
       IN /\ data' = r.data
          /\ rl' = [pc |-> r.pc, ret |-> r.ret, err |-> r.err]
    /\ stalls' = stalls + 1
    /\ UNCHANGED <<payload, input, rpos, buf>>
    /\ UNCHANGED <<mainVars, dec>>

\* bp.Read returns an error
ReadLine_ReadError ==
    /\ rl.pc = "read"
    /\ rl' = [pc |-> "done", ret |-> <<>>, err |-> ErrIO]
    /\ UNCHANGED <<payload, input, rpos, buf, data, stalls>>
    /\ UNCHANGED <<mainVars, dec>>

NextReadLine == ReadLine_ReadByte \/ ReadLine_ReadNothing \/ ReadLine_ReadError

SpecReadLine == InitReadLine /\ [][NextReadLine]_vars

----------------------------------------------------------------------------
(* Decoding of the line read in the ERXUDP position.  A Go string is a      *)
(* sequence of one-character strings; lines are made of the upper-case hex  *)
(* digits, the letters of "ERXUDP" and "EVENT", "G" and the space.          *)

HexDigits == <<"0", "1", "2", "3", "4", "5", "6", "7", "8", "9", "A", "B", "C", "D", "E", "F">>

IsHexDigit(c) == \E i \in 1..16 : HexDigits[i] = c

HexDigit(c) == (CHOOSE i \in 1..16 : HexDigits[i] = c) - 1

RECURSIVE HexVal(_)
\* the value of at most 4 hex digits
HexVal(s) ==
    IF s = <<>> THEN 0
    ELSE 16 * HexVal(SubSeq(s, 1, Len(s) - 1)) + HexDigit(s[Len(s)])

\* An int64 or int v is the record [hi, lo] with v = hi * 65536 + lo and
\* 0 <= lo < 65536; hi is negative for a negative v.
Int64(n) == [hi |-> n \div 65536, lo |-> n % 65536]

\* the number a small [hi, lo] stands for
Num(v) == v.hi * 65536 + v.lo

\* strconv.ParseInt(s, 16, 64) for s of at most 8 characters of the alphabet:
\* the value, or 0 and a syntax error
ParseInt(s) ==
    IF s = <<>> \/ \E i \in 1..Len(s) : ~IsHexDigit(s[i])
    THEN [err |-> ErrStrconv, v |-> Int64(0)]
    ELSE LET n == Len(s)
             cut == IF n > 4 THEN n - 4 ELSE 0
         IN [err |-> Nil,
             v |-> [hi |-> HexVal(SubSeq(s, 1, cut)), lo |-> HexVal(SubSeq(s, cut + 1, n))]]

\* the sizes of int among the builds of the program
IntSizes == {32, 64}

\* the conversion int(v) of an int64 v: unchanged when int has 64 bits,
\* the low 32 bits as two's complement when int has 32 bits
ToInt(v, bits) ==
    IF bits = 64 THEN v
    ELSE [hi |-> ((v.hi + 32768) % 65536) - 32768, lo |-> v.lo]

\* s[a:b]; the slice expression panics when b > len(s)
Slice(s, a, b) == SubSeq(s, a + 1, b)

\* s[len(s)-n:]
Last(s, n) == SubSeq(s, Len(s) - n + 1, Len(s))

HasPrefix(s, p) == Len(s) >= Len(p) /\ SubSeq(s, 1, Len(p)) = p

RECURSIVE TrimSpace(_)
TrimSpace(s) ==
    IF s = <<>> THEN s
    ELSE IF s[1] = " " THEN TrimSpace(Tail(s))
    ELSE IF s[Len(s)] = " " THEN TrimSpace(SubSeq(s, 1, Len(s) - 1))
    ELSE s

RECURSIVE Split(_)
\* strings.Split(s, " ")
Split(s) ==
    IF \A i \in 1..Len(s) : s[i] # " " THEN <<s>>
    ELSE LET i == CHOOSE j \in 1..Len(s) : s[j] = " " /\ \A k \in 1..(j - 1) : s[k] # " "
         IN <<SubSeq(s, 1, i - 1)>> \o Split(SubSeq(s, i + 1, Len(s)))

\* a method's return: the error, and the values when the error is nil
NoValue == <<>>

Ret(e) == [err |-> e, val |-> NoValue]

Value(v) == [err |-> Nil, val |-> v]

\* index out of range, slice bounds out of range: the goroutine panics
Crash == Ret(Panic)

parseMeasuredInstantaneous(hex, bits) ==
    LET mi == ParseInt(hex)
    IN IF mi.err # Nil THEN Ret(mi.err) ELSE Value(ToInt(mi.v, bits))

\* the switch of parseCumulativeElectricEnergyUnit: the scale in kWh, "" for default
UnitScale(u) ==
    CASE u = 0 -> "1"
      [] u = 1 -> "0.1"
      [] u = 2 -> "0.01"
      [] u = 3 -> "0.001"
      [] u = 4 -> "0.0001"
      [] u = 10 -> "10"
      [] u = 11 -> "100"
      [] u = 12 -> "1000"
      [] u = 13 -> "10000"
      [] OTHER -> ""

parseCumulativeElectricEnergyUnit(d) ==
    LET u == ParseInt(d)
    IN IF u.err # Nil THEN Ret(u.err)
       ELSE IF UnitScale(Num(u.v)) = "" THEN Ret(ErrParse)
       ELSE Value(UnitScale(Num(u.v)))

IsLeap(y) == y % 4 = 0 /\ (y % 100 # 0 \/ y % 400 = 0)

DaysIn(m, y) ==
    IF m = 2 THEN (IF IsLeap(y) THEN 29 ELSE 28)
    ELSE IF m \in {4, 6, 9, 11} THEN 30 ELSE 31

\* time.Parse("20060102150405", Sprintf("%04d%02d%02d%02d%02d%02d", ...)) of six
\* non-negative numbers: a number wider than its field leaves extra text, and
\* each field is checked against its range
TimeParse(yy, MM, dd, hh, mm, ss) ==
    IF /\ yy <= 9999
       /\ MM \in 1..12
       /\ dd \in 1..DaysIn(MM, yy)
       /\ hh <= 23 /\ mm <= 59 /\ ss <= 59
    THEN Value([year |-> yy, month |-> MM, day |-> dd, hour |-> hh, min |-> mm, sec |-> ss])
    ELSE Ret(ErrTime)

\* yy, _ := strconv.ParseInt(tmp, 16, 64): the error is dropped, the value is 0 then
Field(s) == Num(ParseInt(s).v)

\* block has 22 characters
parseRegularTimeNormalDirectionCumulativeElectricEnergy(block, bits) ==
    LET time == TimeParse(Field(Slice(block, 0, 4)), Field(Slice(block, 4, 6)),
                          Field(Slice(block, 6, 8)), Field(Slice(block, 8, 10)),
                          Field(Slice(block, 10, 12)), Field(Slice(block, 12, 14)))
        cumulativeElectricEnergy == ParseInt(Slice(block, 14, Len(block)))
    IN IF time.err # Nil THEN Ret(time.err)
       ELSE IF cumulativeElectricEnergy.err # Nil THEN Ret(ErrParse)
       ELSE Value([cee |-> ToInt(cumulativeElectricEnergy.v, bits), time |-> time.val])




ERXUDP == <<"E", "R", "X", "U", "D", "P">>

\* cols := strings.Split(strings.TrimSpace(string(erxudp)), " ")
Cols(erxudp) == Split(TrimSpace(erxudp))

Mismatch_All(seoj, ESV, EPCs, want) ==
    seoj # <<"0", "2", "8", "8", "0", "1">> /\ ESV # <<"7", "2">> /\ \A i \in 1..Len(want) : EPCs[i] # want[i]

\* the test before "return ..., ErrParse": one code for the single-property
\* methods, two for the combined one
Mismatch(seoj, ESV, EPCs, want) ==
    seoj # <<"0", "2", "8", "8", "0", "1">> \/ ESV # <<"7", "2">> \/ \E i \in 1..Len(want) : EPCs[i] # want[i]

\* the single-property methods from HasPrefix to the test of the codes:
\* the return made there, or Ret(Nil) when the method goes on
Checked(erxudp, EPC) ==
    IF ~HasPrefix(erxudp, ERXUDP) THEN Ret(ErrUnexpectedString)
    ELSE IF Len(Cols(erxudp)) < 9 THEN Crash                 \* cols[8]
    ELSE LET resp == Cols(erxudp)[9]                        \* res := cols[8]
         IN IF Len(resp) < 26 THEN Crash                      \* res[8:14], res[20:22], res[24:26]
            ELSE IF Mismatch(Slice(resp, 8, 14), Slice(resp, 20, 22), <<Slice(resp, 24, 26)>>, <<EPC>>)
            THEN Ret(ErrParse)
            ELSE Ret(Nil)

\* GetMeasuredInstantaneous after erxudp was read
GetMeasuredInstantaneous(erxudp, bits) ==
    IF Checked(erxudp, <<"E", "7">>).err # Nil THEN Checked(erxudp, <<"E", "7">>)
    ELSE LET mi == parseMeasuredInstantaneous(Last(erxudp, 8), bits)
         IN IF mi.err # Nil THEN Ret(ErrParse) ELSE mi

\* GetCumulativeElectricEnergyUnit after erxudp was read
GetCumulativeElectricEnergyUnit(erxudp, bits) ==
    IF Checked(erxudp, <<"E", "1">>).err # Nil THEN Checked(erxudp, <<"E", "1">>)
    ELSE parseCumulativeElectricEnergyUnit(Last(erxudp, 2))

\* GetRegularTimeNormalDirectionCumulativeElectricEnergy after erxudp was read
GetRegularTimeNormalDirectionCumulativeElectricEnergy(erxudp, bits) ==
    IF Checked(erxudp, <<"E", "A">>).err # Nil THEN Checked(erxudp, <<"E", "A">>)
    ELSE parseRegularTimeNormalDirectionCumulativeElectricEnergy(Last(erxudp, 22), bits)

UnitField_Tail(resp) == Last(resp, 2)

\* the argument of parseCumulativeElectricEnergyUnit in the combined method
UnitField(resp) == Slice(resp, 28, 30)

\* GetUnitAndRegularTimeNormalDirectionCumulativeElectricEnergy after erxudp was read
GetUnitAndRegularTimeNormalDirectionCumulativeElectricEnergy(erxudp, bits) ==
    IF ~HasPrefix(erxudp, ERXUDP) THEN Ret(ErrUnexpectedString)
    ELSE IF Len(Cols(erxudp)) < 9 THEN Crash                 \* cols[8]
    ELSE LET resp == Cols(erxudp)[9]                        \* res := cols[8]
         IN IF Len(resp) < 32 THEN Crash                      \* ..., res[30:32]
            ELSE IF Mismatch(Slice(resp, 8, 14), Slice(resp, 20, 22),
                             <<Slice(resp, 24, 26), Slice(resp, 30, 32)>>, <<<<"E", "1">>, <<"E", "A">>>>)
            THEN Ret(ErrParse)
            ELSE LET unit == parseCumulativeElectricEnergyUnit(UnitField(resp))
                 IN IF unit.err # Nil THEN Ret(unit.err)
                    ELSE IF Len(resp) < 56 THEN Crash         \* res[34:56]
                    ELSE LET r == parseRegularTimeNormalDirectionCumulativeElectricEnergy(
                                      Slice(resp, 34, 56), bits)
                         IN IF r.err # Nil THEN Ret(r.err)
                            ELSE Value([cee |-> r.val.cee, time |-> r.val.time, unit |-> unit.val])

Methods == {"GetMeasuredInstantaneous", "GetCumulativeElectricEnergyUnit",
            "GetRegularTimeNormalDirectionCumulativeElectricEnergy",
            "GetUnitAndRegularTimeNormalDirectionCumulativeElectricEnergy"}

----------------------------------------------------------------------------
(* The lines given to the decoding: ECHONET Lite frames in hex, and their   *)
(* deformations                                                             *)

Seojs == {<<"0", "2", "8", "8", "0", "1">>, <<"0", "5", "F", "F", "0", "1">>}

Esvs == {<<"7", "2">>, <<"5", "2">>}

\* EDT of E7: 411, -16 as a 32-bit pattern, the largest positive pattern, a non-hex digit
Powers == {<<"0", "0", "0", "0", "0", "1", "9", "B">>, <<"F", "F", "F", "F", "F", "F", "F", "0">>, <<"7", "F", "F", "F", "F", "F", "F", "F">>, <<"0", "0", "0", "0", "G", "1", "9", "B">>}

\* EDT of E1: 1 kWh, 10000 kWh, a value outside the table, no hex digits
Units == {<<"0", "0">>, <<"0", "D">>, <<"0", "5">>, <<"G", "G">>}

\* EDT of EA: 2023-10-20 00:00:00 with counter 1000; the same with a counter of
\* 10 digits; 2024-02-29; month 13; month 0; day 0; hour 24; year 10000;
\* 30 February; a month and an hour that are not hex; a counter that is not
\* hex; the counter FFFFFFFE
Blocks ==
    {<<"0", "7", "E", "7", "0", "A", "1", "4", "0", "0", "0", "0", "0", "0", "0", "0", "0", "0", "0", "3", "E", "8">>, <<"0", "7", "E", "7", "0", "A", "1", "4", "0", "0", "0", "0", "0", "0", "0", "0", "0", "0", "0", "0", "0", "3", "E", "8">>, <<"0", "7", "E", "8", "0", "2", "1", "D", "1", "7", "3", "B", "3", "B", "0", "0", "0", "0", "0", "0", "0", "1">>,
     <<"0", "7", "E", "7", "0", "D", "1", "4", "0", "0", "0", "0", "0", "0", "0", "0", "0", "0", "0", "3", "E", "8">>, <<"0", "7", "E", "7", "0", "0", "1", "4", "0", "0", "0", "0", "0", "0", "0", "0", "0", "0", "0", "3", "E", "8">>, <<"0", "7", "E", "7", "0", "A", "0", "0", "0", "0", "0", "0", "0", "0", "0", "0", "0", "0", "0", "3", "E", "8">>,
     <<"0", "7", "E", "7", "0", "A", "1", "4", "1", "8", "0", "0", "0", "0", "0", "0", "0", "0", "0", "3", "E", "8">>, <<"2", "7", "1", "0", "0", "A", "1", "4", "0", "0", "0", "0", "0", "0", "0", "0", "0", "0", "0", "3", "E", "8">>, <<"0", "7", "E", "7", "0", "2", "1", "E", "0", "0", "0", "0", "0", "0", "0", "0", "0", "0", "0", "3", "E", "8">>,
     <<"0", "7", "E", "7", "G", "G", "1", "4", "0", "0", "0", "0", "0", "0", "0", "0", "0", "0", "0", "3", "E", "8">>, <<"0", "7", "E", "7", "0", "A", "1", "4", "G", "G", "0", "0", "0", "0", "0", "0", "0", "0", "0", "3", "E", "8">>, <<"0", "7", "E", "7", "0", "A", "1", "4", "0", "0", "0", "0", "0", "0", "0", "0", "0", "0", "0", "G", "3", "E", "8">>,
     <<"0", "7", "E", "7", "0", "A", "1", "4", "0", "0", "0", "0", "0", "0", "F", "F", "F", "F", "F", "F", "F", "E">>}

\* EHD and TID, SEOJ, DEOJ (the controller), ESV, then OPC and the properties
Frame(seoj, esv, props) == <<"1", "0", "8", "1", "0", "0", "0", "1">> \o seoj \o <<"0", "5", "F", "F", "0", "1">> \o esv \o props

InstantaneousProps == {<<"0", "1">> \o epc \o <<"0", "4">> \o edt : epc \in {<<"E", "7">>, <<"E", "8">>}, edt \in Powers}

UnitProps == {<<"0", "1">> \o epc \o <<"0", "1">> \o edt : epc \in {<<"E", "1">>, <<"E", "7">>}, edt \in Units}

EnergyProps == {<<"0", "1">> \o epc \o <<"0", "B">> \o edt : epc \in {<<"E", "A">>, <<"E", "1">>}, edt \in Blocks}

CombinedProps ==
    {<<"0", "2">> \o epc1 \o <<"0", "1">> \o edt1 \o epc2 \o <<"0", "B">> \o edt2 :
        epc1 \in {<<"E", "1">>, <<"E", "7">>}, edt1 \in Units, epc2 \in {<<"E", "A">>, <<"E", "7">>}, edt2 \in Blocks}

Frames ==
    {Frame(seoj, esv, props) :
        seoj \in Seojs, esv \in Esvs,
        props \in InstantaneousProps \cup UnitProps \cup EnergyProps \cup CombinedProps}

\* the payload lengths a truncated line keeps
Cuts == {13, 25, 31, 55}

Cut(s, n) == IF Len(s) > n THEN SubSeq(s, 1, n) ELSE s

\* "ERXUDP", seven fields before the payload, the payload
Line(marker, pl) == marker \o <<" ", "1", " ", "2", " ", "3", " ", "4", " ", "5", " ", "6", " ", "7", " ">> \o pl

\* the line as the module sends it, and the line without the marker, with a
\* field less, with a trailing space, with a truncated payload
Lines ==
    UNION {{Line(ERXUDP, pl),
            Line(<<"E", "V", "E", "N", "T">>, pl),
            ERXUDP \o <<" ", "1", " ", "2", " ", "3", " ", "4", " ", "5", " ", "6", " ">> \o pl,
            Line(ERXUDP, pl) \o <<" ">>}
           \cup {Line(ERXUDP, Cut(pl, n)) : n \in Cuts} : pl \in Frames}


----------------------------------------------------------------------------
(* One decoding: a build, a method and the line it read in the ERXUDP position *)

InitDecode ==
    /\ pc = "RouteBLogin"
    /\ at = 0
    /\ err = Nil
    /\ res = NoLine
    /\ scanDuration = 0
    /\ netWrokInfo = EmptyInfo
    /\ got = {}
    /\ NetWrokInfo = EmptyInfo
    /\ IPv6Addr = ""
    /\ RouteB = Credentials
    /\ lastLine = NoLine
    /\ written = Cmd("none", 0)
    /\ joinState = "Init"
    /\ used = 0
    /\ task = [t \in 1..MaxTasks |-> [kind |-> "none", pc |-> "idle", err |-> Nil]]
    /\ payload = <<>>
    /\ input = <<>>
    /\ rpos = 0
    /\ buf = NUL
    /\ data = <<>>
    /\ stalls = 0
    /\ rl = [pc |-> "off", ret |-> <<>>, err |-> Nil]
    /\ \E m \in Methods, b \in IntSizes, line \in Lines :
         dec = [pc |-> "erxudp", method |-> m, bits |-> b, erxudp |-> line, ret |-> Ret(Nil)]

\* the method m goes from the line it read to its return
Returns(m, r) ==
    /\ dec.pc = "erxudp"
    /\ dec.method = m
    /\ dec' = [dec EXCEPT !.pc = "ret", !.ret = r]
    /\ UNCHANGED <<mainVars, rlVars>>

Decode_MeasuredInstantaneous ==
    Returns("GetMeasuredInstantaneous", GetMeasuredInstantaneous(dec.erxudp, dec.bits))

Decode_CumulativeElectricEnergyUnit ==
    Returns("GetCumulativeElectricEnergyUnit", GetCumulativeElectricEnergyUnit(dec.erxudp, dec.bits))

Decode_RegularTime ==
    Returns("GetRegularTimeNormalDirectionCumulativeElectricEnergy",
            GetRegularTimeNormalDirectionCumulativeElectricEnergy(dec.erxudp, dec.bits))

Decode_UnitAndRegularTime ==
    Returns("GetUnitAndRegularTimeNormalDirectionCumulativeElectricEnergy",
            GetUnitAndRegularTimeNormalDirectionCumulativeElectricEnergy(dec.erxudp, dec.bits))

NextDecode ==
    \/ Decode_MeasuredInstantaneous
    \/ Decode_CumulativeElectricEnergyUnit
    \/ Decode_RegularTime
    \/ Decode_UnitAndRegularTime

SpecDecode == InitDecode /\ [][NextDecode]_vars

----------------------------------------------------------------------------
(* Claims *)

\* C1: during polling at most one goroutine is between its command write and
\* its return, whatever the interleaving of fast and slow invocations.
C1_ExchangesSerialized == Cardinality(Exchanging) <= 1

\* a fast and a slow invocation contend: one is in its exchange, the other waits for the lock
C1_Witness ==
    \E t, u \in Tasks :
        /\ task[t].pc \in InExchange /\ task[u].pc = "Lock"
        /\ task[t].kind # task[u].kind

\* C2: whenever a measurement request (SKSENDTO) has been written, NetWrokInfo is
\* valid, the resolved address is non-empty and the join sequence reached Joined.
C2_RequestOnlyWhenJoined ==
    written.cmd = "SKSENDTO" =>
        isValid(NetWrokInfo) /\ IPv6Addr # "" /\ joinState = "Joined"

\* C3: once a join step returned an error (Failed), no command is written any
\* more: neither a later join command nor a measurement request.
C3_FailedIsAbsorbing == [][joinState = "Failed" => written' = written]_vars

\* C4: an exchange that ended with ErrReadTimeout does not terminate the
\* process; it has released the lock and only its output is skipped.
C4_TimeoutIsSkipped ==
    \A t \in Tasks :
        task[t].err = ErrReadTimeout => task[t].pc # "exit" /\ used # t

NonTimeoutErrors == {ErrUnexpectedString, ErrParse, ErrIO, ErrStrconv, ErrTime}

\* C5, as stated: once an exchange has ended with an error other than
\* ErrReadTimeout, no result is emitted for it and no further exchange is started.
C5_NoExchangeAfterError ==
    [][(\E t \in Tasks : task[t].err \in NonTimeoutErrors) =>
          /\ written' = written
          /\ \A t \in Tasks : task[t].err \in NonTimeoutErrors => task'[t].pc # "done"]_vars

\* C5, amended: the goroutine whose exchange ended with an error other than
\* ErrReadTimeout emits no result and its next step is os.Exit(1); after the
\* exit nothing is written and no goroutine moves.
C5_ErrorTerminates ==
    [][/\ \A t \in Tasks :
            task'[t].err \in NonTimeoutErrors => task'[t].pc \in {"ret", "exit"}
       /\ \A t \in Tasks :
            (task[t].err \in NonTimeoutErrors /\ task'[t] # task[t]) =>
                task'[t].pc = "exit" /\ pc' = "exited"
       /\ pc = "exited" => written' = written /\ task' = task]_vars

\* an exchange ended with ErrParse and the process exited while another goroutine waited
C5_Witness ==
    /\ pc = "exited"
    /\ \E t, u \in Tasks :
         /\ task[t].pc = "exit" /\ task[t].err = ErrParse
         /\ task[u].pc = "Lock"

\* the step of SetNetWrokInfo that reads the scan-complete marker
ScanEndStep == pc = "SetNetWrokInfo" /\ at = 1 /\ res' = "EVENT 22"

\* C6: the scan commands carry the durations 5, 6, 7 in that order, each after
\* the previous attempt ended with EVENT 22 without a valid candidate; the first
\* attempt that ends with a valid candidate returns success without a later
\* scan; the attempt at 7 ending without one returns the retry error, without a
\* fourth scan.
C6_ScanDurations ==
    [][/\ (written' # written /\ written'.cmd = "SKSCAN") =>
            \/ written.cmd # "SKSCAN" /\ written'.arg = 5
            \/ /\ written.cmd = "SKSCAN" /\ written'.arg = written.arg + 1
               /\ written'.arg <= 7
               /\ ScanEndStep /\ ~isValid(netWrokInfo)
       /\ (ScanEndStep /\ isValid(netWrokInfo)) =>
            /\ pc' = "RegistChannel" /\ err' = Nil
            /\ written' = written /\ NetWrokInfo' = netWrokInfo
       /\ (ScanEndStep /\ ~isValid(netWrokInfo) /\ written.arg < 7) =>
            /\ pc' = pc /\ written' = Cmd("SKSCAN", written.arg + 1)
       /\ (ScanEndStep /\ ~isValid(netWrokInfo) /\ written.arg = 7) =>
            /\ pc' = "RegistChannel" /\ err' = ErrScanRetry
            /\ written' = written
       /\ (pc = "SetNetWrokInfo" /\ pc' = "RegistChannel" /\ err' = Nil) =>
            ScanEndStep /\ isValid(netWrokInfo)]_vars

\* the scan succeeded at duration 6: duration 7 was never sent
C6_Witness ==
    /\ pc = "RegistChannel" /\ at = 0 /\ err = Nil
    /\ written = Cmd("SKSCAN", 6)
    /\ isValid(NetWrokInfo)

\* C7: when the scan succeeds (after a successful login), all six values stored
\* in NetWrokInfo arrived in the successful attempt itself.
C7_OneScanResult ==
    (pc = "RegistChannel" /\ at = 0 /\ err = Nil /\ joinState = "Scanned") => got = Keys

Rank(c) ==
    CASE c.cmd = "none" -> 0
      [] c.cmd = "SKSETRBID" -> 1
      [] c.cmd = "SKSETPWD" -> 2
      [] c.cmd = "SKSCAN" -> 3
      [] c.cmd = "SKSREG S2" -> 4
      [] c.cmd = "SKSREG S3" -> 5
      [] c.cmd = "SKLL64" -> 6
      [] c.cmd = "SKJOIN" -> 7
      [] OTHER -> 8

\* C8: every join command is the successor of the last command written (or the
\* next scan), and is written only when the step before it returned without
\* error, having consumed its response lines; no step is skipped.
C8_JoinInOrder ==
    [][(written' # written /\ written'.cmd # "SKSENDTO") =>
          /\ \/ Rank(written') = Rank(written) + 1
             \/ /\ written.cmd = "SKSCAN" /\ written'.cmd = "SKSCAN"
                /\ written'.arg = written.arg + 1
          /\ err = Nil
          /\ joinState # "Failed"]_vars

\* C9: ConBRoute enters its loop after two lines; EVENT 24 returns the PANA
\* error at once; EVENT 25 is followed by exactly one more read and success;
\* any other line keeps the loop going.
C9_JoinLoop ==
    [][/\ (pc = "ConBRoute" /\ at # 3 /\ at' = 3) => at = 2
       /\ (pc = "ConBRoute" /\ at = 3 /\ res' = "EVENT 24") =>
            pc' = "SetReadTimeout" /\ err' = ErrPANA
       /\ (pc = "ConBRoute" /\ at = 3 /\ res' = "EVENT 25") =>
            pc' = pc /\ at' = 4
       /\ (pc = "ConBRoute" /\ at = 3 /\ res' \notin {"EVENT 24", "EVENT 25", NoLine}) =>
            pc' = pc /\ at' = 3
       /\ (pc = "ConBRoute" /\ at = 4) =>
            pc' = "SetReadTimeout" /\ err' \in {Nil} \cup ReadErrors /\ res' = res
       /\ (pc = "ConBRoute" /\ pc' = "SetReadTimeout" /\ err' = ErrPANA) =>
            at = 3 /\ res' = "EVENT 24"
       /\ (pc = "ConBRoute" /\ pc' = "SetReadTimeout" /\ err' = Nil) =>
            at = 4 /\ res = "EVENT 25"]_vars

\* ConBRoute returned success: the last line its loop read was EVENT 25
C9_Witness == pc = "SetReadTimeout" /\ err = Nil /\ res = "EVENT 25"

\* the channel delivered the payload and CRLF: every read returned one byte, without error
Delivered == rl.pc = "done" /\ stalls = 0 /\ rl.err # ErrIO

\* a payload without a 0x00 byte and without a CR LF pair
Plain(P) ==
    /\ \A i \in 1..Len(P) : P[i] # NUL
    /\ \A i \in 1..(Len(P) - 1) : ~(P[i] = CR /\ P[i + 1] = LF)

ReturnsPayload == rl.ret = payload /\ rl.err = Nil /\ rpos = Len(payload) + 2

\* C10, as stated: for any payload P, delivered with CRLF, ReadLine returns
\* exactly P without error, having consumed P and the CRLF.
C10_AnyPayload == Delivered => ReturnsPayload

\* C10, amended: the same for any payload without a 0x00 byte and without a CR LF pair.
C10_PlainPayload == (Delivered /\ Plain(payload)) => ReturnsPayload

\* a payload holding a CR was returned whole
C10_Witness ==
    /\ Delivered /\ Plain(payload) /\ ReturnsPayload
    /\ Len(payload) >= 2
    /\ \E i \in 1..Len(payload) : payload[i] = CR

\* C11: as soon as a byte read from the channel is 0x00, ReadLine has returned
\* ErrReadTimeout with an empty result, and no byte after it is read.
C11_ZeroByteIsTimeout ==
    \A i \in 1..rpos :
        input[i] = NUL =>
            /\ rl = [pc |-> "done", ret |-> <<>>, err |-> ErrReadTimeout]
            /\ rpos = i

\* the first byte delivered was 0x00, with more bytes waiting on the channel
C11_Witness ==
    /\ rpos = 1 /\ input[1] = NUL /\ Len(input) > 1
    /\ rl.err = ErrReadTimeout

\* the property codes a method expects, and where
Wanted(m) ==
    CASE m = "GetMeasuredInstantaneous" -> <<<<"E", "7">>>>
      [] m = "GetCumulativeElectricEnergyUnit" -> <<<<"E", "1">>>>
      [] m = "GetRegularTimeNormalDirectionCumulativeElectricEnergy" -> <<<<"E", "A">>>>
      [] m = "GetUnitAndRegularTimeNormalDirectionCumulativeElectricEnergy" -> <<<<"E", "1">>, <<"E", "A">>>>

Offsets == <<24, 30>>

\* the payload of a line: its ninth field
PayloadOf(line) == IF Len(Cols(line)) >= 9 THEN Cols(line)[9] ELSE <<>>

\* the line has the marker and its payload holds every field the method m checks
Checkable(m, line) ==
    HasPrefix(line, ERXUDP) /\ Len(PayloadOf(line)) >= Offsets[Len(Wanted(m))] + 2

SeojOk(line) == Slice(PayloadOf(line), 8, 14) = <<"0", "2", "8", "8", "0", "1">>

EsvOk(line) == Slice(PayloadOf(line), 20, 22) = <<"7", "2">>

EpcOk(m, line, i) == Slice(PayloadOf(line), Offsets[i], Offsets[i] + 2) = Wanted(m)[i]

AllOk(m, line) ==
    SeojOk(line) /\ EsvOk(line) /\ \A i \in 1..Len(Wanted(m)) : EpcOk(m, line, i)

\* C12: a method returns a value only if the payload's source object is 028801,
\* its service code is 72 and every expected property code matches at its offset;
\* when the payload holds these fields and any of them mismatches, the method
\* returns ErrParse and no value.
C12_AllFieldsChecked ==
    dec.pc = "ret" =>
        /\ dec.ret.err = Nil =>
               Checkable(dec.method, dec.erxudp) /\ AllOk(dec.method, dec.erxudp)
        /\ Checkable(dec.method, dec.erxudp) /\ ~AllOk(dec.method, dec.erxudp) =>
               dec.ret = Ret(ErrParse)

\* the combined request got a payload in which only the second property code mismatches
C12_Witness ==
    /\ dec.pc = "ret"
    /\ dec.method = "GetUnitAndRegularTimeNormalDirectionCumulativeElectricEnergy"
    /\ Checkable(dec.method, dec.erxudp)
    /\ SeojOk(dec.erxudp) /\ EsvOk(dec.erxudp)
    /\ EpcOk(dec.method, dec.erxudp, 1) /\ ~EpcOk(dec.method, dec.erxudp, 2)
    /\ dec.ret = Ret(ErrParse)

\* the 32-bit pattern x read as two's complement: x when x < 2^31, x - 2^32 otherwise
Signed32(x) == [hi |-> IF x.hi >= 32768 THEN x.hi - 65536 ELSE x.hi, lo |-> x.lo]

\* C13: the instantaneous power returned is the last 8 hex characters of the line
\* read as a signed 32-bit two's-complement integer.
C13_SignedPower ==
    dec.pc = "ret" /\ dec.method = "GetMeasuredInstantaneous" /\ dec.ret.err = Nil =>
        /\ dec.ret.val = Signed32(ParseInt(Last(dec.erxudp, 8)).v)
        /\ Last(dec.erxudp, 8) = <<"0", "0", "0", "0", "0", "1", "9", "B">> => dec.ret.val = Int64(411)
        /\ Last(dec.erxudp, 8) = <<"F", "F", "F", "F", "F", "F", "F", "0">> => dec.ret.val = Int64(-16)

BlockMethods == {"GetRegularTimeNormalDirectionCumulativeElectricEnergy",
                 "GetUnitAndRegularTimeNormalDirectionCumulativeElectricEnergy"}

\* the 22 characters the method m hands to the decoding of the block
BlockOf(m, line) ==
    IF m = "GetRegularTimeNormalDirectionCumulativeElectricEnergy" THEN Last(line, 22)
    ELSE Slice(PayloadOf(line), 34, 56)

\* the method m gets as far as decoding the block of the line
ReachesBlock(m, line) ==
    /\ m \in BlockMethods
    /\ Checkable(m, line) /\ AllOk(m, line)
    /\ m = "GetUnitAndRegularTimeNormalDirectionCumulativeElectricEnergy" =>
           /\ Len(PayloadOf(line)) >= 56
           /\ parseCumulativeElectricEnergyUnit(Slice(PayloadOf(line), 28, 30)).err = Nil

AllHex(s) == \A i \in 1..Len(s) : IsHexDigit(s[i])

\* the six date and time fields of a block are hex numbers that form a calendar timestamp
ValidCalendar(b) ==
    /\ AllHex(SubSeq(b, 1, 14))
    /\ HexVal(SubSeq(b, 1, 4)) <= 9999
    /\ HexVal(SubSeq(b, 5, 6)) \in 1..12
    /\ HexVal(SubSeq(b, 7, 8)) \in 1..DaysIn(HexVal(SubSeq(b, 5, 6)), HexVal(SubSeq(b, 1, 4)))
    /\ HexVal(SubSeq(b, 9, 10)) <= 23
    /\ HexVal(SubSeq(b, 11, 12)) <= 59
    /\ HexVal(SubSeq(b, 13, 14)) <= 59

\* C14: the decoding of a 22-hex block returns a result only when its six date
\* and time fields form a valid calendar timestamp; otherwise it fails with
\* ErrParse and returns neither counter nor timestamp.
C14_InvalidCalendarIsParseError ==
    dec.pc = "ret" /\ ReachesBlock(dec.method, dec.erxudp) =>
        \/ ValidCalendar(BlockOf(dec.method, dec.erxudp))
        \/ dec.ret = Ret(ErrParse)

Combined == "GetUnitAndRegularTimeNormalDirectionCumulativeElectricEnergy"

\* the combined response is valid: the checked fields match, the unit byte is in
\* the table, the block starts with a calendar timestamp and ends with 8 hex digits
ValidCombined(line) ==
    /\ ReachesBlock(Combined, line)
    /\ ValidCalendar(BlockOf(Combined, line))
    /\ AllHex(SubSeq(BlockOf(Combined, line), 15, 22))

\* the timestamp and the counter written in the 22 characters b, for an int of the given size
Reading(b, bits) ==
    [cee |-> IF bits = 32
             THEN Signed32([hi |-> HexVal(SubSeq(b, 15, 18)), lo |-> HexVal(SubSeq(b, 19, 22))])
             ELSE [hi |-> HexVal(SubSeq(b, 15, 18)), lo |-> HexVal(SubSeq(b, 19, 22))],
     time |-> [year |-> HexVal(SubSeq(b, 1, 4)), month |-> HexVal(SubSeq(b, 5, 6)),
               day |-> HexVal(SubSeq(b, 7, 8)), hour |-> HexVal(SubSeq(b, 9, 10)),
               min |-> HexVal(SubSeq(b, 11, 12)), sec |-> HexVal(SubSeq(b, 13, 14))]]

Oct20 == [year |-> 2023, month |-> 10, day |-> 20, hour |-> 0, min |-> 0, sec |-> 0]

\* the payload carries the unit byte u at offset 28 and the characters b from offset 34 on
Carries(line, u, b) ==
    /\ Len(PayloadOf(line)) = 34 + Len(b)
    /\ SubSeq(PayloadOf(line), 29, 30) = u
    /\ SubSeq(PayloadOf(line), 35, 34 + Len(b)) = b

Needed(m) == IF m = Combined THEN 56 ELSE 26

\* C20: a line that begins with ERXUDP but has fewer than 9 fields, or a payload
\* shorter than the offsets read from it, makes the method return ErrParse; no
\* decoding indexes past the end and panics.
C20_ShortLineIsParseError ==
    dec.pc = "ret" =>
        /\ dec.ret.err # Panic
        /\ /\ HasPrefix(dec.erxudp, ERXUDP)
           /\ Len(Cols(dec.erxudp)) < 9 \/ Len(PayloadOf(dec.erxudp)) < Needed(dec.method)
           => dec.ret = Ret(ErrParse)

\* the lines that report EVENT 21, without and with the sender and the parameter
Event21Reports == {"EVENT 21", "EVENT 21 FE80:0000:0000:0000:021D:1290:1234:5678 02"}

\* the step in which goroutine t read a line in the position p
ReadIn(t, p) == task[t].pc = p /\ task'[t].pc # p /\ lastLine' # NoLine

\* goroutine t returns ErrUnexpectedString in this step
ReturnsUnexpected(t) == task'[t].pc = "ret" /\ task'[t].err = ErrUnexpectedString

\* C16: an exchange that reads an EVENT 21 line, with or without parameters, in
\* the position before OK, or a line without the ERXUDP marker in the delivery
\* position, returns ErrUnexpectedString in that step, and a returned exchange
\* writes no further command.
C16_UnexpectedString ==
    [][\A t \in Tasks :
          /\ ReadIn(t, "event21") /\ lastLine' \in Event21Reports => ReturnsUnexpected(t)
          /\ ReadIn(t, "erxudp") /\ lastLine' # "ERXUDP" => ReturnsUnexpected(t)
          /\ task[t].pc \in {"ret", "done", "exit"} => task'[t].pc \in {"ret", "done", "exit"}]_vars

Returned == {"ret", "done", "exit"}

\* C18: once any of the four measurement methods has returned, with a value or
\* with any error, its invocation does not hold the lock.
C18_ReturnReleasesLock == \A t \in Tasks : task[t].pc \in Returned => used # t

\* a method that main does not call returned an error, and a later exchange holds the lock
C18_Witness ==
    \E t, u \in Tasks :
        /\ task[t].pc = "ret" /\ task[t].kind \in UncalledKinds /\ task[t].err # Nil
        /\ u # t /\ used = u /\ task[u].pc \in InExchange

\* the step in which SetNetWrokInfo returns nil: the scan ended with a valid candidate
ScanSucceeds == pc = "SetNetWrokInfo" /\ pc' = MainAfter(pc, Nil) /\ err' = Nil /\ res' = "EVENT 22"

\* the step in which SetIPv6Addr returns nil
ResolutionSucceeds == pc = "SetIPv6Addr" /\ pc' = MainAfter(pc, Nil) /\ err' = Nil

\* C19: bp.NetWrokInfo changes only in the step in which a scan succeeds,
\* bp.IPv6Addr only in the step in which the address resolution succeeds, the
\* route-B credentials never, and no step of the polling changes any of them.
C19_SessionWrittenOnce ==
    [][/\ NetWrokInfo' # NetWrokInfo => ScanSucceeds /\ isValid(NetWrokInfo')
       /\ IPv6Addr' # IPv6Addr => ResolutionSucceeds
       /\ RouteB' = RouteB
       /\ Running => UNCHANGED <<NetWrokInfo, IPv6Addr, RouteB>>]_vars

\* a scan failed with the candidate partly filled, later the address was resolved
\* and an exchange returned: the session holds what the join left
C19_Witness ==
    /\ joinState = "Failed" /\ NetWrokInfo = EmptyInfo /\ IPv6Addr # ""
    /\ \E t \in Tasks : task[t].pc = "ret"

\* goroutine t wrote its command: its exchange has started
Performed(t) == task[t].pc \in InExchange \cup Returned

\* the ticks that fired, and the exchanges that started
Fired == {t \in Tasks : task[t].pc # "idle"}

Started == {t \in Tasks : Performed(t)}

\* os.Exit(1) was called, or a goroutine panicked
Terminated == pc \in {"exited", "crashed"}

\* C17 as stated: every tick that waits for the lock eventually performs its
\* exchange, and the exchanges started eventually equal the ticks fired.
C17_NoTickDropped ==
    /\ \A t \in Tasks : (task[t].pc = "Lock") ~> Performed(t)
    /\ <>[](Cardinality(Started) = Cardinality(Fired))

\* C17, amended: every tick that waits for the lock eventually performs its
\* exchange unless the process terminates first, and eventually the exchanges
\* started equal the ticks fired unless the process has terminated.
C17_NoTickDroppedWhileRunning ==
    /\ \A t \in Tasks : (task[t].pc = "Lock") ~> (Performed(t) \/ Terminated)
    /\ <>[](Terminated \/ Cardinality(Started) = Cardinality(Fired))

\* the exchange of one tick returned a value and the process runs on; the
\* goroutine of the other tick has got the lock and performs its exchange
C17_Witness ==
    \E t, u \in Tasks :
        /\ t # u /\ task[t].pc = "done"
        /\ used = u /\ task[u].pc \in InExchange
        /\ ~Terminated

====
